---- MODULE Spec2Model ----
(***************************************************************************)
(* A model of the infiniproxy gateway: the backend registry                *)
(* (backend_manager.py), the model resolver and the resilient completion   *)
(* invoker of /v1/messages and /v1/chat/completions (proxy_server.py), and *)
(* the outbound client's error surface (openai_client.py), and the         *)
(* translator between the two wire formats (translator.py).                *)
(*                                                                         *)
(* Strings are sequences of one-character strings, so that split('/', 1)   *)
(* and the truthiness of "" are computed as Python computes them.  Python's *)
(* None is the one-element sequence <<"None">>, which is no string of the   *)
(* model's alphabet.                                                       *)
(***************************************************************************)
EXTENDS Integers, Sequences, FiniteSets, TLC

VARIABLES registry, nextId, prefs, lastOp, reqs, translated

vars == <<registry, nextId, prefs, lastOp, reqs, translated>>

----------------------------------------------------------------------------
(* Bounds of the model.                                                    *)

\* backends ever created (AUTOINCREMENT ids 1..MaxBackends)
MaxBackends == 2
\* api_keys rows (caller identities)
MaxKeys == 1
\* requests handled in one behaviour
MaxReqs == 1
\* lines one backend stream delivers before it ends
MaxLines == 2
\* requests in flight at the same time in the concurrent specification
MaxConc == 2

----------------------------------------------------------------------------
(* Strings.                                                                *)

None == <<"None">>

\* Python truthiness of an Optional[str]
Truthy(s) == s # None /\ s # <<>>

\* '/' in s
HasSlash(s) == \E i \in 1..Len(s) : s[i] = "/"

FirstSlash(s) == CHOOSE i \in 1..Len(s) : s[i] = "/" /\ \A j \in 1..(i - 1) : s[j] # "/"

\* s.split('/', 1)[0] and [1], for s containing '/'
SplitHead(s) == SubSeq(s, 1, FirstSlash(s) - 1)
SplitTail(s) == SubSeq(s, FirstSlash(s) + 1, Len(s))

\* backend short names an administrator may choose (no validation on create)
ShortNames == { <<"a">>, <<"b">>, <<"a", "/", "b">> }

\* config.openai_model, the system-wide default model
openai_model == <<"g">>

\* values of backend_services.default_model (NULL, '', or a model name)
DefaultModels == { None, <<>>, <<"h">> }

\* values of api_keys.model_name (NULL, a plain model, a "backend/model" string)
ModelSettings == { None, <<"m">>, <<"b", "/", "m">> }

Keys == 1..MaxKeys
Reqs == 1..MaxReqs
BackendIds == 1..MaxBackends

\* optional boolean arguments of update_backend: absent, True or False
OptBool == { "None", "True", "False" }

----------------------------------------------------------------------------
(* Backend registry: the backend_services table as a set of rows, and the  *)
(* api_keys columns backend_id (0 is NULL) and model_name.  The columns     *)
(* base_url and api_key of a row are kept as one value, pair: 0 is the     *)
(* pair of the global configuration (config.openai_base_url,               *)
(* config.openai_api_key), any other number a pair of its own.             *)

NoRow == [id |-> 0, short_name |-> None, default_model |-> None,
          is_active |-> FALSE, is_default |-> FALSE, pair |-> 0]

\* a row whose base_url and api_key are its own
Row(id, sn, dm, act, def) ==
    [id |-> id, short_name |-> sn, default_model |-> dm,
     is_active |-> act, is_default |-> def, pair |-> id]

\* the row with the base_url and api_key of the global configuration
WithGlobalPair(row) == [row EXCEPT !.pair = 0]

\* UPDATE backend_services SET is_default = 0
ClearDefaults(reg) == { [r EXCEPT !.is_default = FALSE] : r \in reg }

MinId(rows) == CHOOSE r \in rows : \A q \in rows : r.id <= q.id

get_backend_by_short_name(reg, sn) ==
    LET hit == { r \in reg : r.short_name = sn /\ r.is_active }
    IN  IF hit = {} THEN NoRow ELSE MinId(hit)

\* get_default_backend with the first SELECT lacking "AND is_active = 1"
get_default_backend_IgnoresActive(reg) ==
    LET def == { r \in reg : r.is_default }
        act == { r \in reg : r.is_active }
    IN  IF def # {} THEN MinId(def)
        ELSE IF act # {} THEN MinId(act)
        ELSE NoRow

get_default_backend(reg) ==
    LET def == { r \in reg : r.is_default /\ r.is_active }
        act == { r \in reg : r.is_active }
    IN  IF def # {} THEN MinId(def)
        ELSE IF act # {} THEN MinId(act)
        ELSE NoRow

\* get_user_backend with the JOIN lacking "AND bs.is_active = 1"
get_user_backend_IgnoresActive(reg, pf, k) ==
    LET hit == { r \in reg : r.id = pf[k].backend_id }
    IN  IF hit = {} THEN NoRow ELSE MinId(hit)

get_user_backend(reg, pf, k) ==
    LET hit == { r \in reg : r.id = pf[k].backend_id /\ r.is_active }
    IN  IF hit = {} THEN NoRow ELSE MinId(hit)

\* SELECT COUNT(*) FROM api_keys WHERE backend_id = ?
RefCount(pf, id) == Cardinality({ k \in Keys : pf[k].backend_id = id })

----------------------------------------------------------------------------
(* Administrative operations of BackendManager.  Each runs in one SQLite   *)
(* transaction with no await inside, so each is one atomic step; a raised  *)
(* IntegrityError closes the connection without commit, which rolls back.  *)

\* what the last operation reported; id is kept for delete_backend, and for
\* get_default_backend, where it is the id of the row returned (0 for None)
OpResult(op, id, res) == [op |-> op, id |-> id, result |-> res]

\* a call of get_default_backend(): a read of the table
GetDefault ==
    /\ lastOp' = OpResult("get_default", get_default_backend(registry).id, "ok")
    /\ UNCHANGED <<registry, nextId, prefs, reqs, translated>>

\* the table after create_backend's UPDATE (when is_default) and INSERT; the
\* variant lacks the UPDATE
CreateRowsNoClear(reg, id, sn, dm, def) ==
    reg \cup { Row(id, sn, dm, TRUE, def) }

CreateRows(reg, id, sn, dm, def) ==
    (IF def THEN ClearDefaults(reg) ELSE reg) \cup { Row(id, sn, dm, TRUE, def) }

create_backend(sn, dm, def) ==
    /\ nextId <= MaxBackends
    /\ IF \E r \in registry : r.short_name = sn
       THEN \* UNIQUE(short_name): IntegrityError, re-raised as ValueError
            /\ lastOp' = OpResult("create", 0, "ValueError")
            /\ UNCHANGED <<registry, nextId>>
       ELSE /\ registry' = CreateRows(registry, nextId, sn, dm, def)
            /\ nextId' = nextId + 1
            /\ lastOp' = OpResult("create", 0, "ok")
    /\ UNCHANGED <<prefs, reqs, translated>>

\* the table after update_backend's statements, before commit
UpdateRows(reg, id, sn, dm, act, def) ==
    LET cleared == IF def = "True" THEN ClearDefaults(reg) ELSE reg
        upd(r)  == [r EXCEPT
                      !.short_name    = IF sn # None THEN sn ELSE @,
                      !.default_model = IF dm # None THEN dm ELSE @,
                      !.is_active     = IF act # "None" THEN act = "True" ELSE @,
                      !.is_default    = IF def # "None" THEN def = "True" ELSE @]
    IN  { IF r.id = id THEN upd(r) ELSE r : r \in cleared }

\* of the columns an update may name, the model keeps short_name, default_model,
\* is_active and is_default
update_backend(id, sn, dm, act, def) ==
    /\ IF sn = None /\ dm = None /\ act = "None" /\ def = "None"
       THEN \* if not updates: return False
            /\ lastOp' = OpResult("update", 0, "False")
            /\ UNCHANGED registry
       ELSE IF /\ sn # None
               /\ \E r \in registry : r.id = id
               /\ \E q \in registry : q.id # id /\ q.short_name = sn
       THEN \* UNIQUE(short_name): IntegrityError, nothing committed
            /\ lastOp' = OpResult("update", 0, "ValueError")
            /\ UNCHANGED registry
       ELSE \* conn.commit() runs whether or not a row matched
            /\ registry' = UpdateRows(registry, id, sn, dm, act, def)
            /\ lastOp' = OpResult("update", 0,
                            IF \E r \in registry : r.id = id THEN "ok" ELSE "False")
    /\ UNCHANGED <<nextId, prefs, reqs, translated>>

\* delete_backend's check: TRUE when the ValueError is raised; the variant
\* never raises
DeleteRefusedNever(pf, id) == FALSE

DeleteRefused(pf, id) == RefCount(pf, id) > 0

delete_backend(id) ==
    /\ IF DeleteRefused(prefs, id)
       THEN /\ lastOp' = OpResult("delete", id, "ValueError")
            /\ UNCHANGED registry
       ELSE /\ registry' = { r \in registry : r.id # id }
            /\ lastOp' = OpResult("delete", id,
                            IF \E r \in registry : r.id = id THEN "ok" ELSE "False")
    /\ UNCHANGED <<nextId, prefs, reqs, translated>>

\* backend_id 0 is NULL; the column has no enforced foreign key
set_user_backend(k, bid) ==
    /\ prefs' = [prefs EXCEPT ![k].backend_id = bid]
    /\ lastOp' = OpResult("set_user_backend", 0, "ok")
    /\ UNCHANGED <<registry, nextId, reqs, translated>>

----------------------------------------------------------------------------
(* Model resolver (resolve_backend_and_model).                             *)

\* the dict returned when no backend service is configured
StaticBackend == [id |-> 0, short_name |-> <<"d", "e", "f", "a", "u", "l", "t">>,
                  default_model |-> openai_model,
                  is_active |-> TRUE, is_default |-> FALSE, pair |-> 0]

\* backend.get('default_model') or config.openai_model; the variant lacks
\* "or config.openai_model"
ModelOrDefault_NoGlobal(b) == b.default_model

ModelOrDefault(b) == IF Truthy(b.default_model) THEN b.default_model ELSE openai_model

\* the resolver with the caller's preference consulted before the model prefix
resolve_PreferenceFirst(model_name, k, reg, pf) ==
    LET slash == Truthy(model_name) /\ HasSlash(model_name)
        pref == get_user_backend(reg, pf, k)
        named == get_backend_by_short_name(reg, SplitHead(model_name))
        first == IF pref # NoRow THEN pref ELSE IF slash THEN named ELSE NoRow
        resolved == IF slash THEN SplitTail(model_name) ELSE model_name
        dflt == get_default_backend(reg)
    IN  IF pref = NoRow /\ slash /\ named = NoRow
        THEN [err |-> TRUE, backend |-> NoRow, model |-> None]
        ELSE IF first = NoRow /\ dflt = NoRow
        THEN [err |-> FALSE, backend |-> StaticBackend,
              model |-> IF Truthy(resolved) THEN resolved ELSE openai_model]
        ELSE LET b == IF first = NoRow THEN dflt ELSE first
             IN  [err |-> FALSE, backend |-> b,
                  model |-> IF Truthy(resolved) THEN resolved ELSE ModelOrDefault(b)]

\* the resolver with the registry default consulted before the caller's preference
resolve_DefaultFirst(model_name, k, reg, pf) ==
    LET slash == Truthy(model_name) /\ HasSlash(model_name)
        named == get_backend_by_short_name(reg, SplitHead(model_name))
        dflt == get_default_backend(reg)
        first == IF slash THEN named
                 ELSE IF dflt # NoRow THEN dflt ELSE get_user_backend(reg, pf, k)
        resolved == IF slash THEN SplitTail(model_name) ELSE model_name
    IN  IF slash /\ named = NoRow
        THEN [err |-> TRUE, backend |-> NoRow, model |-> None]
        ELSE IF first = NoRow
        THEN [err |-> FALSE, backend |-> StaticBackend,
              model |-> IF Truthy(resolved) THEN resolved ELSE openai_model]
        ELSE [err |-> FALSE, backend |-> first,
              model |-> IF Truthy(resolved) THEN resolved ELSE ModelOrDefault(first)]

\* err is TRUE when HTTPException(400) is raised
resolve_backend_and_model(model_name, k, reg, pf) ==
    LET slash == Truthy(model_name) /\ HasSlash(model_name)
        named == get_backend_by_short_name(reg, SplitHead(model_name))
        first == IF slash THEN named ELSE get_user_backend(reg, pf, k)
        resolved == IF slash THEN SplitTail(model_name) ELSE model_name
        dflt == get_default_backend(reg)
    IN  IF slash /\ named = NoRow
        THEN [err |-> TRUE, backend |-> NoRow, model |-> None]
        ELSE IF first = NoRow /\ dflt = NoRow
        THEN [err |-> FALSE, backend |-> StaticBackend,
              model |-> IF Truthy(resolved) THEN resolved ELSE openai_model]
        ELSE LET b == IF first = NoRow THEN dflt ELSE first
             IN  [err |-> FALSE, backend |-> b,
                  model |-> IF Truthy(resolved) THEN resolved ELSE ModelOrDefault(b)]

----------------------------------------------------------------------------
(* Outbound client (OpenAIClient): what a failed backend call raises.      *)

\* substrings the handlers look for in the lower-cased error text
VocabStr  == { "not found", "does not exist", "invalid" }
VocabBody == { "not found", "does not exist", "no access" }

NoOutcome == [kind |-> "none", code |-> 0, text |-> {}]

\* a backend failure: kind "timeout" or "connect" (httpx transport errors),
\* "status" (an HTTP error status with a response body: text is the set of
\* the looked-for substrings the body contains), "other" (any other exception:
\* text is the set of the substrings its message contains)
Outcome(kind, code, text) == [kind |-> kind, code |-> code, text |-> text]

\* the substrings in str(HTTPStatusError).lower(), "client error '<code> <reason>' ..."
StatusLine(code) ==
    IF code = 400 THEN { "400", "bad request" }
    ELSE IF code = 404 THEN { "not found" }
    ELSE {}

\* the exception create_completion lets through
RaisedBy_create_completion(out) ==
    IF out.kind = "status"
    THEN [str |-> StatusLine(out.code), has_response |-> TRUE, body |-> out.text]
    ELSE IF out.kind = "other"
    THEN [str |-> out.text, has_response |-> FALSE, body |-> {}]
    ELSE [str |-> {}, has_response |-> FALSE, body |-> {}]

\* the exception create_streaming_completion lets through: for an HTTP error
\* status its handler reads e.response.text of a response that was streamed and
\* never read, which raises httpx.ResponseNotRead, "Attempted to access
\* streaming response content, without having called read()."
RaisedBy_create_streaming_completion(out) ==
    IF out.kind = "status"
    THEN [str |-> { "attempted to access streaming response content" },
          has_response |-> FALSE, body |-> {}]
    ELSE IF out.kind = "other"
    THEN [str |-> out.text, has_response |-> FALSE, body |-> {}]
    ELSE [str |-> {}, has_response |-> FALSE, body |-> {}]

----------------------------------------------------------------------------
(* Resilient completion invoker: the handlers of /v1/messages              *)
(* (create_message) and /v1/chat/completions (chat_completions).  The two  *)
(* handlers carry the same resolution and fallback code.  A handler runs   *)
(* atomically between two awaits of the backend.                           *)

\* is_model_error as the non-streaming except block computes it; the variant
\* does not ask for "model" and takes every word in either text
is_model_error_AnyVocab(e) ==
    \/ e.str \cap (VocabStr \cup VocabBody) # {}
    \/ e.has_response /\ e.body \cap (VocabStr \cup VocabBody) # {}

is_model_error(e) ==
    \/ "model" \in e.str /\ e.str \cap VocabStr # {}
    \/ e.has_response /\ "model" \in e.body /\ e.body \cap VocabBody # {}

\* is_model_error as the except block of stream_generator computes it
is_model_error_streaming(e) ==
    \/ "model" \in e.str /\ e.str \cap VocabStr # {}
    \/ "400" \in e.str
    \/ "bad request" \in e.str
    \/ "attempted to access streaming response content" \in e.str
    \/ e.has_response /\ "model" \in e.body
          /\ e.body \cap (VocabBody \cup { "invalid" }) # {}

\* the request of one handler invocation
\*   pc        idle, await1, await2 (non-streaming, a backend call pending),
\*             stream1, stream2 (a backend stream open), done, closed
\*   sent      the model of each backend call made, in order
\*   payload   the fields of the caller's request other than model and stream
\*   calls     the backend calls made, in order: the backend and the client
\*             called and the request given to it
\*   out1      the failure of the first call (NoOutcome when none)
\*   fail2     the retry failed
\*   lines     the lines yielded to the caller: Line("1", k) the k-th line of
\*             the first stream, Line("2", k) of the fallback stream,
\*             ErrorLine an error line
\*   recv      the lines the backend streams have yielded to the handler
\*   status    the HTTP status of the response, 0 while none is decided
\*   body      of a non-streaming response: none, completion or error
\*   tracked   usage records written for the request
\*   response_model  the "model" of the /v1/messages response the handler
\*             built (None while none is built)
\*   stream_field  the "stream" field of the caller's request ("None": absent)
\*   stream     is_streaming_requested: the handler takes the streaming branch
\*   stream_sent   the "stream" field of the request given to the backend
\*   client     the OpenAIClient the resolver returned: "global" (the one made
\*              at start-up) or "new" (constructed for this request)
\*   connected  the caller's connection is open
\*   behind     the request arrived while another request was waiting on a
\*              backend call
IdleReq ==
    [pc |-> "idle", endpoint |-> "none", key |-> 0, has_model |-> FALSE,
     model |-> None, stream |-> FALSE, backend |-> NoRow,
     fallback_model |-> None, sent |-> <<>>, payload |-> "none", calls |-> <<>>,
     out1 |-> NoOutcome, fail2 |-> FALSE,
     lines |-> <<>>, recv |-> <<>>, status |-> 0, body |-> "none", tracked |-> 0,
     response_model |-> None,
     stream_field |-> "None", stream_sent |-> "None", client |-> "none",
     connected |-> TRUE, behind |-> FALSE]

IdleReqs == [r \in Reqs |-> IdleReq]

\* the k-th non-empty line of stream n (create_streaming_completion skips the
\* empty ones), and the "data: {"error": ...}" line of the handler
Line(n, k) == [from |-> n, no |-> k]
ErrorLine == [from |-> "error", no |-> 0]

\* the client resolve_backend_and_model returns with backend b: the global
\* client when b carries the global configuration's base_url and api_key,
\* else a client constructed in this call; the variant is a resolver that
\* constructs no client
ClientFor_AlwaysGlobal(b) == "global"

ClientFor(b) == IF b.pair = 0 THEN "global" ELSE "new"

\* the "stream" field of the request given to the backend.  /v1/messages: the
\* translator writes stream = False and the handler overwrites it with True
\* when is_streaming_requested; /v1/chat/completions passes the caller's
\* request through.  The variant lacks the handler's overwrite.
OutboundStream_TranslatorOnly(ep, stream) ==
    IF ep = "messages" THEN "False" ELSE stream

OutboundStream(ep, stream) ==
    IF ep = "messages"
    THEN IF stream = "True" THEN "True" ELSE "False"
    ELSE stream

\* what the caller's request carries besides model and stream (messages,
\* tools, max_tokens, temperature, top_p, stop), as one value
Payloads == { "p1", "p2" }

\* openai_request as it is given to the backend: the model, the stream flag,
\* and body, the other fields (for /v1/messages the translation of the
\* caller's payload, for /v1/chat/completions the payload itself)
OpenAIRequest(model, stream, ep, payload) ==
    [model |-> model, stream |-> stream, body |-> << ep, payload >>]

\* one backend call: backend_client.create_completion(openai_request) or
\* backend_client.create_streaming_completion(openai_request)
BackendCall(b, client, request) ==
    [to |-> b.id, pair |-> b.pair, client |-> client, request |-> request]

\* openai_request['model'] = fallback_model: the request object of the first
\* call, with its model replaced; the variant builds the retry's request anew
\* from the model alone
RetryRequest_Rebuilt(request, fallback_model) ==
    [model |-> fallback_model, stream |-> "False", body |-> << "none", "none" >>]

RetryRequest(request, fallback_model) == [request EXCEPT !.model = fallback_model]

\* fallback_model as the except block reads it: a local of the handler
\* invocation (nonlocal in stream_generator), set once after resolution.  The
\* variant is a handler that keeps it in a module-level variable, which holds
\* what the handler that resolved last wrote (here: the one in the highest slot).
FallbackModelOf_ModuleLevel(q) ==
    LET resolved == { r \in DOMAIN reqs : reqs[r].fallback_model # None }
        last == CHOOSE r \in resolved : \A o \in resolved : o <= r
    IN  IF resolved = {} THEN q.fallback_model ELSE reqs[last].fallback_model

FallbackModelOf(q) == q.fallback_model

\* the second call of the handler of q: the same client, the request of the
\* first call after RetryRequest
Retried(q) ==
    LET again == RetryRequest(q.calls[1].request, FallbackModelOf(q))
    IN  [q EXCEPT !.sent = Append(@, again.model),
                  !.calls = Append(@, BackendCall(q.backend, q.client, again))]

\* the handler up to its first backend call: parse, resolve, set the model and
\* the fallback model, then call (or open the stream).  The HTTPException(400)
\* of the resolver is raised inside the handler's try block, whose
\* "except Exception" turns it into HTTPException(500).
Started(ep, k, has_model, model, stream, payload, reg, pf) ==
    LET is_streaming == stream = "True"
        requested_model == IF has_model THEN model ELSE pf[k].model_name
        res == resolve_backend_and_model(requested_model, k, reg, pf)
        base == [IdleReq EXCEPT !.endpoint = ep, !.key = k, !.has_model = has_model,
                                !.model = model, !.stream = is_streaming,
                                !.stream_field = stream, !.payload = payload]
    IN  IF res.err
        THEN [base EXCEPT !.pc = "done", !.status = 500, !.body = "error"]
        ELSE [base EXCEPT !.pc = IF is_streaming THEN "stream1" ELSE "await1",
                          !.backend = res.backend,
                          !.client = ClientFor(res.backend),
                          !.fallback_model = ModelOrDefault(res.backend),
                          !.sent = << res.model >>,
                          !.calls = << BackendCall(res.backend, ClientFor(res.backend),
                                           OpenAIRequest(res.model,
                                               OutboundStream(ep, stream), ep, payload)) >>,
                          !.stream_sent = OutboundStream(ep, stream),
                          !.status = IF is_streaming THEN 200 ELSE 0]

Receive(r, ep, k, has_model, model, stream, payload) ==
    /\ reqs[r].pc = "idle"
    /\ reqs' = [reqs EXCEPT ![r] = Started(ep, k, has_model, model, stream, payload,
                                           registry, prefs)]
    /\ UNCHANGED <<registry, nextId, prefs, lastOp, translated>>

\* user_manager.track_usage(api_key_id, endpoint, input_tokens, output_tokens,
\* model, request_id) takes no backend_url; both handlers pass backend_url=...,
\* so the call raises TypeError
track_usage_accepts_call == FALSE

\* claude_request.get("model", "claude-3-5-sonnet-20241022"): the name used
\* when the request has no model field
ClaudeDefaultModel == << "c", "l", "a", "u", "d", "e" >>

original_model(q) == IF q.has_model THEN q.model ELSE ClaudeDefaultModel

\* "model": original_model or self.openai_model
ResponseModel(original) == IF Truthy(original) THEN original ELSE openai_model

\* the model field of translate_response_to_claude(openai_response,
\* original_model) in the handler of q; the variant answers with the model of
\* the backend call that produced the completion
ResponseModelOf_BackendModel(q) == q.sent[Len(q.sent)]

ResponseModelOf(q) == ResponseModel(original_model(q))

\* a backend response arrived: translate (/v1/messages), track usage, return
Completed(q) ==
    LET built == [q EXCEPT !.response_model =
                     IF q.endpoint = "messages" THEN ResponseModelOf(q) ELSE None]
    IN  IF track_usage_accepts_call
        THEN [built EXCEPT !.pc = "done", !.status = 200, !.body = "completion",
                           !.tracked = @ + 1]
        ELSE \* TypeError, caught by "except Exception": HTTPException(500)
             [built EXCEPT !.pc = "done", !.status = 500, !.body = "error"]

\* the except block around the first create_completion call; the variant
\* answers a failure it does not retry as if it were a completion
FirstFailed_Swallowed(q, out) ==
    IF q.has_model /\ is_model_error(RaisedBy_create_completion(out))
    THEN [q EXCEPT !.out1 = out, !.pc = "await2",
                   !.sent = Append(@, q.fallback_model)]
    ELSE [q EXCEPT !.out1 = out, !.pc = "done", !.status = 200, !.body = "completion"]

FirstFailed(q, out) ==
    IF q.has_model /\ is_model_error(RaisedBy_create_completion(out))
    THEN \* openai_request['model'] = fallback_model; second create_completion
         [Retried(q) EXCEPT !.out1 = out, !.pc = "await2"]
    ELSE \* raise: the outer "except Exception" answers HTTPException(500)
         [q EXCEPT !.out1 = out, !.pc = "done", !.status = 500, !.body = "error"]

\* the retry raised: it is outside any inner try, so the outer handler answers;
\* the variant retries a failed retry
RetryFailed_RetryAgain(q) ==
    IF Len(q.sent) < 3
    THEN [q EXCEPT !.fail2 = TRUE, !.sent = Append(@, q.fallback_model)]
    ELSE [q EXCEPT !.pc = "done", !.fail2 = TRUE, !.status = 500, !.body = "error"]

RetryFailed(q) ==
    [q EXCEPT !.pc = "done", !.fail2 = TRUE, !.status = 500, !.body = "error"]

\* the except block of stream_generator around the first stream; the variant
\* lacks the comparison of the failed model with the fallback model
StreamFailed_SameModelRetry(q, out) ==
    IF q.has_model /\ is_model_error_streaming(RaisedBy_create_streaming_completion(out))
    THEN [q EXCEPT !.out1 = out, !.pc = "stream2",
                   !.sent = Append(@, q.fallback_model)]
    ELSE [q EXCEPT !.out1 = out, !.pc = "done", !.lines = Append(@, ErrorLine)]

StreamFailed(q, out) ==
    IF /\ q.has_model
       /\ is_model_error_streaming(RaisedBy_create_streaming_completion(out))
       /\ q.sent[1] # q.fallback_model
    THEN \* open the fallback stream
         [Retried(q) EXCEPT !.out1 = out, !.pc = "stream2"]
    ELSE \* yield the error line; the generator ends
         [q EXCEPT !.out1 = out, !.pc = "done", !.lines = Append(@, ErrorLine)]

\* the fallback stream raised: one error line, return
StreamRetryFailed(q) ==
    [q EXCEPT !.pc = "done", !.fail2 = TRUE, !.lines = Append(@, ErrorLine)]

\* lines of stream n ("1" or "2") already yielded
Yielded(q, n) == Cardinality({ i \in 1..Len(q.lines) : q.lines[i].from = n })

\* lines of stream n the backend has delivered
Received(q, n) == Cardinality({ i \in 1..Len(q.recv) : q.recv[i].from = n })

\* yield f"{line}\n": the line goes to the caller after the lines already
\* yielded; the variant starts the caller's output again with the first line
\* of the fallback stream
Yield_Rewinds(q, line) ==
    IF line = Line("2", 1)
    THEN [q EXCEPT !.lines = << line >>]
    ELSE [q EXCEPT !.lines = Append(@, line)]

Yield(q, line) == [q EXCEPT !.lines = Append(@, line)]

BackendResponds(r) ==
    /\ reqs[r].pc \in { "await1", "await2" }
    /\ reqs' = [reqs EXCEPT ![r] = Completed(reqs[r])]
    /\ UNCHANGED <<registry, nextId, prefs, lastOp, translated>>

BackendFails(r, out) ==
    /\ reqs[r].pc = "await1"
    /\ reqs' = [reqs EXCEPT ![r] = FirstFailed(reqs[r], out)]
    /\ UNCHANGED <<registry, nextId, prefs, lastOp, translated>>

RetryFails(r) ==
    /\ reqs[r].pc = "await2"
    /\ reqs' = [reqs EXCEPT ![r] = RetryFailed(reqs[r])]
    /\ UNCHANGED <<registry, nextId, prefs, lastOp, translated>>

\* the backend stream delivers a non-empty line, which is yielded as received
StreamLine(r) ==
    /\ reqs[r].pc \in { "stream1", "stream2" }
    /\ LET n == IF reqs[r].pc = "stream1" THEN "1" ELSE "2"
           line == Line(n, Received(reqs[r], n) + 1)
       IN  /\ Received(reqs[r], n) < MaxLines
           /\ reqs' = [reqs EXCEPT ![r] =
                          Yield([reqs[r] EXCEPT !.recv = Append(@, line)], line)]
    /\ UNCHANGED <<registry, nextId, prefs, lastOp, translated>>

\* the backend stream ends: the generator returns
StreamEnds(r) ==
    /\ reqs[r].pc \in { "stream1", "stream2" }
    /\ reqs' = [reqs EXCEPT ![r].pc = "done"]
    /\ UNCHANGED <<registry, nextId, prefs, lastOp, translated>>

\* an HTTP error status is raised by raise_for_status, before any line
StreamFails(r, out) ==
    /\ reqs[r].pc = "stream1"
    /\ out.kind = "status" => Received(reqs[r], "1") = 0
    /\ reqs' = [reqs EXCEPT ![r] = StreamFailed(reqs[r], out)]
    /\ UNCHANGED <<registry, nextId, prefs, lastOp, translated>>

StreamRetryFails(r) ==
    /\ reqs[r].pc = "stream2"
    /\ reqs' = [reqs EXCEPT ![r] = StreamRetryFailed(reqs[r])]
    /\ UNCHANGED <<registry, nextId, prefs, lastOp, translated>>

\* the response task of q is cancelled while its generator is suspended in a
\* read of the backend stream or at a yield: CancelledError and GeneratorExit
\* are no Exception, so neither except block runs, and leaving "async with
\* self.client.stream(...)" closes the backend response.  The variant is a
\* generator whose except block catches the cancellation like a failure.
Cancelled_CaughtAsFailure(q) ==
    IF q.pc = "stream1" /\ q.has_model /\ q.sent[1] # q.fallback_model
    THEN [q EXCEPT !.connected = FALSE, !.pc = "stream2",
                   !.sent = Append(@, q.fallback_model)]
    ELSE [q EXCEPT !.connected = FALSE, !.pc = "closed"]

Cancelled(q) == [q EXCEPT !.connected = FALSE, !.pc = "closed"]

\* the caller disconnects during a streaming response
Disconnect(r) ==
    /\ reqs[r].pc \in { "stream1", "stream2" }
    /\ reqs' = [reqs EXCEPT ![r] = Cancelled(reqs[r])]
    /\ UNCHANGED <<registry, nextId, prefs, lastOp, translated>>

----------------------------------------------------------------------------
(* Translator (APITranslator): /v1/messages requests to chat-completion    *)
(* requests, chat-completion responses to /v1/messages responses.  A text  *)
(* is a sequence of characters.  A JSON value that may be a string, a list *)
(* of content blocks, absent or of another type is a record with its kind. *)

\* turns of a translated conversation
MaxTurns == 2
\* content blocks of one message
MaxBlocks == 2

\* "\n".join(parts)
RECURSIVE Join(_)
Join(parts) ==
    IF parts = <<>> THEN <<>>
    ELSE IF Len(parts) = 1 THEN parts[1]
    ELSE parts[1] \o << "\n" >> \o Join(Tail(parts))

\* text.strip() is non-empty
StripsToText(text) == \E i \in 1..Len(text) : text[i] \notin { "\n", " " }

NoContent == [kind |-> "absent", str |-> <<>>, blocks |-> <<>>]
StrContent(t) == [kind |-> "str", str |-> t, blocks |-> <<>>]
ListContent(bs) == [kind |-> "list", str |-> <<>>, blocks |-> bs]
\* a value that is neither a string nor a list; str is its str()
OtherContent(t) == [kind |-> "other", str |-> t, blocks |-> <<>>]

\* content blocks; text None is a block without the "text" key
TextBlock(t) ==
    [type |-> "text", text |-> t, tool_use_id |-> None, result |-> NoContent]
ToolUseBlock ==
    [type |-> "tool_use", text |-> None, tool_use_id |-> None, result |-> NoContent]
ToolResultBlock(id, c) ==
    [type |-> "tool_result", text |-> None, tool_use_id |-> id, result |-> c]

\* the texts of the text blocks, block.get("text", "")
RECURSIVE TextParts(_)
TextParts(blocks) ==
    IF blocks = <<>> THEN <<>>
    ELSE (IF blocks[1].type = "text"
          THEN << IF blocks[1].text = None THEN <<>> ELSE blocks[1].text >>
          ELSE <<>>) \o TextParts(Tail(blocks))

\* the variant concatenates the texts without the separator
RECURSIVE Concat(_)
Concat(parts) == IF parts = <<>> THEN <<>> ELSE parts[1] \o Concat(Tail(parts))

extract_text_from_content_blocks_NoSeparator(blocks) == Concat(TextParts(blocks))

extract_text_from_content_blocks(blocks) == Join(TextParts(blocks))

extract_tool_result_content(c) ==
    IF c.kind = "list" THEN extract_text_from_content_blocks(c.blocks)
    ELSE c.str

\* a message of the outbound request; tool_call_id None: no such key
OpenAIMessage(role, content, id) ==
    [role |-> role, content |-> content, tool_call_id |-> id]

\* _convert_message_to_openai, as the list of messages the caller appends; the
\* variant puts the user message of the sibling text before the tool messages
convert_message_to_openai_TextFirst(m) ==
    LET IsResult(b) == b.type = "tool_result"
        IsText(b) == b.type = "text"
        tool_results == SelectSeq(m.content.blocks, IsResult)
        text_blocks == SelectSeq(m.content.blocks, IsText)
        text_content == Join(TextParts(text_blocks))
    IN  IF m.content.kind = "list"
        THEN IF tool_results # <<>>
             THEN (IF text_blocks # <<>> /\ StripsToText(text_content)
                   THEN << OpenAIMessage("user", text_content, None) >>
                   ELSE <<>>)
                  \o [i \in 1..Len(tool_results) |->
                         OpenAIMessage("tool",
                             extract_tool_result_content(tool_results[i].result),
                             tool_results[i].tool_use_id)]
             ELSE << OpenAIMessage(m.role,
                         extract_text_from_content_blocks(m.content.blocks), None) >>
        ELSE << OpenAIMessage(m.role, m.content.str, None) >>

convert_message_to_openai(m) ==
    LET IsResult(b) == b.type = "tool_result"
        IsText(b) == b.type = "text"
        tool_results == SelectSeq(m.content.blocks, IsResult)
        text_blocks == SelectSeq(m.content.blocks, IsText)
        text_content == Join(TextParts(text_blocks))
    IN  IF m.content.kind = "list"
        THEN IF tool_results # <<>>
             THEN [i \in 1..Len(tool_results) |->
                      OpenAIMessage("tool",
                          extract_tool_result_content(tool_results[i].result),
                          tool_results[i].tool_use_id)]
                  \o (IF text_blocks # <<>> /\ StripsToText(text_content)
                      THEN << OpenAIMessage("user", text_content, None) >>
                      ELSE <<>>)
             ELSE << OpenAIMessage(m.role,
                         extract_text_from_content_blocks(m.content.blocks), None) >>
        ELSE \* a string; claude_message.get("content", "") when absent
             << OpenAIMessage(m.role, m.content.str, None) >>

RECURSIVE ConvertAll(_)
ConvertAll(ms) ==
    IF ms = <<>> THEN <<>>
    ELSE convert_message_to_openai(ms[1]) \o ConvertAll(Tail(ms))

\* translate_request_to_openai: the messages, the model and the stream flag of
\* the outbound request (max_tokens, temperature, top_p, stop and tools are
\* copied field by field and are not kept)
translate_request_to_openai(claude_request) ==
    LET sys == claude_request.system
        system_text == IF sys.kind = "list"
                       THEN extract_text_from_content_blocks(sys.blocks)
                       ELSE sys.str
    IN  [model |-> openai_model,
         messages |-> (IF sys.kind # "absent"
                       THEN << OpenAIMessage("system", system_text, None) >>
                       ELSE <<>>) \o ConvertAll(claude_request.messages),
         stream |-> "False"]

\* json.loads of a tool call's argument string, by the kind of the string: a
\* JSON object, "{}", a JSON array, text that is no JSON, the empty string;
\* "null" is None in place of a string
json_loads(arguments) ==
    IF arguments = "object" THEN [raised |-> "none", value |-> "object"]
    ELSE IF arguments = "empty_object" THEN [raised |-> "none", value |-> "empty"]
    ELSE IF arguments = "array" THEN [raised |-> "none", value |-> "array"]
    ELSE IF arguments = "null" THEN [raised |-> "TypeError", value |-> "none"]
    ELSE [raised |-> "JSONDecodeError", value |-> "none"]

\* _map_finish_reason; "absent" (no key) and "null" both arrive as None.  The
\* variant lacks the function_call entry.
map_finish_reason_NoFunctionCall(r) ==
    IF r = "stop" THEN "end_turn"
    ELSE IF r = "length" THEN "max_tokens"
    ELSE IF r = "content_filter" THEN "content_filtered"
    ELSE IF r = "tool_calls" THEN "tool_use"
    ELSE "end_turn"

map_finish_reason(r) ==
    IF r = "stop" THEN "end_turn"
    ELSE IF r = "length" THEN "max_tokens"
    ELSE IF r = "content_filter" THEN "content_filtered"
    ELSE IF r \in { "tool_calls", "function_call" } THEN "tool_use"
    ELSE "end_turn"

TextPart(t) == [type |-> "text", text |-> t, input |-> "none"]
ToolUsePart(input) == [type |-> "tool_use", text |-> <<>>, input |-> input]

\* the content block of one tool call: none when its type is not "function";
\* raised names the exception that leaves the translator
ToolCallPart(tc) ==
    IF tc.type # "function" THEN [raised |-> "none", parts |-> <<>>]
    ELSE IF tc.function = "null"
    THEN \* tool_call.get("function", {}) is None: None.get
         [raised |-> "AttributeError", parts |-> <<>>]
    ELSE LET parsed == IF tc.function = "absent" \/ tc.arguments = "absent"
                       THEN json_loads("empty_object")
                       ELSE json_loads(tc.arguments)
         IN  IF parsed.raised = "JSONDecodeError"
             THEN [raised |-> "none", parts |-> << ToolUsePart("empty") >>]
             ELSE IF parsed.raised # "none"
             THEN [raised |-> parsed.raised, parts |-> <<>>]
             ELSE [raised |-> "none", parts |-> << ToolUsePart(parsed.value) >>]

RECURSIVE ToolCallParts(_)
ToolCallParts(calls) ==
    IF calls = <<>> THEN [raised |-> "none", parts |-> <<>>]
    ELSE LET head == ToolCallPart(calls[1])
             rest == ToolCallParts(Tail(calls))
         IN  IF head.raised # "none" THEN head
             ELSE [raised |-> rest.raised, parts |-> head.parts \o rest.parts]

NoUsage == [present |-> FALSE, input_tokens |-> 0, output_tokens |-> 0]

Raised(exc) ==
    [raised |-> exc, content |-> <<>>, stop_reason |-> "none", usage |-> NoUsage,
     model |-> None]

\* usage.get(key, 0): a count of -1 is a count the usage object does not have
UsageCount(n) == IF n < 0 THEN 0 ELSE n

\* content_text after the reasoning is prepended; None stays None, and is
\* "None" inside the f-string
TextOfResponse(resp) ==
    LET content_text == IF resp.message = "dict" /\ resp.content.kind = "str"
                        THEN resp.content.str ELSE None
        absent == resp.message # "dict" \/ resp.content.kind = "absent"
        text == IF absent THEN <<>> ELSE content_text
        shown == IF text = None THEN << "N", "o", "n", "e" >> ELSE text
        reasoning == IF resp.message = "dict" THEN resp.reasoning_content ELSE None
    IN  IF Truthy(reasoning)
        THEN << "[Reasoning]", "\n" >> \o reasoning
                \o << "\n", "\n", "[Response]", "\n" >> \o shown
        ELSE text

\* translate_response_to_claude(openai_response, original_model)
translate_response_to_claude(resp) ==
    IF resp.choices = "null" THEN Raised("TypeError")
    ELSE IF resp.choices = "empty" THEN Raised("IndexError")
    ELSE IF resp.choices = "one_null" THEN Raised("AttributeError")
    ELSE IF resp.choices = "one" /\ resp.message = "null" THEN Raised("AttributeError")
    ELSE LET choice == resp.choices = "one"
             message == choice /\ resp.message = "dict"
             content_text == TextOfResponse([resp EXCEPT
                                 !.message = IF message THEN "dict" ELSE "absent"])
             text_parts == IF Truthy(content_text) THEN << TextPart(content_text) >>
                           ELSE <<>>
             calls == IF message /\ resp.tool_calls.kind = "list"
                      THEN ToolCallParts(resp.tool_calls.calls)
                      ELSE IF message /\ resp.tool_calls.kind = "malformed"
                      THEN \* a string or a dict: its elements have no get
                           [raised |-> "AttributeError", parts |-> <<>>]
                      ELSE [raised |-> "none", parts |-> <<>>]
             finish == IF choice THEN resp.finish_reason ELSE "absent"
         IN  IF calls.raised # "none" THEN Raised(calls.raised)
             ELSE IF resp.usage.kind = "null" THEN Raised("AttributeError")
             ELSE [raised |-> "none",
                   content |-> text_parts \o calls.parts,
                   stop_reason |-> map_finish_reason(finish),
                   usage |-> IF resp.usage.kind = "dict"
                             THEN [present |-> TRUE,
                                   input_tokens |-> UsageCount(resp.usage.prompt_tokens),
                                   output_tokens |-> UsageCount(resp.usage.completion_tokens)]
                             ELSE NoUsage,
                   model |-> ResponseModel(resp.original_model)]

\* the last translator call: its input, whether it has run, and its output
NoTranslation == [op |-> "none", done |-> TRUE]

TranslateRequest ==
    /\ translated.op = "request" /\ ~translated.done
    /\ translated' = [translated EXCEPT
                        !.done = TRUE,
                        !.output = translate_request_to_openai(translated.input)]
    /\ UNCHANGED <<registry, nextId, prefs, lastOp, reqs>>

TranslateResponse ==
    /\ translated.op = "response" /\ ~translated.done
    /\ translated' = [translated EXCEPT
                        !.done = TRUE,
                        !.output = translate_response_to_claude(translated.input)]
    /\ UNCHANGED <<registry, nextId, prefs, lastOp, reqs>>

----------------------------------------------------------------------------
(* Requests in flight together.  The handlers are coroutines on one event  *)
(* loop: a request that has arrived is served when the loop runs its       *)
(* handler, which it can do whenever no other handler is inside a call     *)
(* that keeps the loop.                                                    *)

\* the handler of q is inside a call that does not give the loop back.  The
\* backend calls are "await self.client.post(...)" and "async with
\* self.client.stream(...)": they suspend the handler.  The variant is a
\* client whose non-streaming call is synchronous.
BlocksLoop_SyncCall(q) == q.pc \in { "await1", "await2" }

BlocksLoop(q) == q.pc \in {}

WaitsOnBackend(q) == q.pc \in { "await1", "await2", "stream1", "stream2" }

\* a request reaches the server: its connection is accepted and its handler
\* is scheduled
Arrive(r, ep, k, has_model, model, stream, payload) ==
    /\ reqs[r].pc = "idle"
    /\ reqs' = [reqs EXCEPT ![r] =
                   [IdleReq EXCEPT !.pc = "arrived", !.endpoint = ep, !.key = k,
                                   !.has_model = has_model, !.model = model,
                                   !.stream_field = stream, !.payload = payload,
                                   !.behind = \E o \in DOMAIN reqs \ {r} :
                                                  WaitsOnBackend(reqs[o])]]
    /\ UNCHANGED <<registry, nextId, prefs, lastOp, translated>>

\* GET /health: the handler returns the status dict
health(q) == [q EXCEPT !.pc = "done", !.status = 200, !.body = "health"]

\* the loop runs the handler of an arrived request up to its first await
Serve(r) ==
    /\ reqs[r].pc = "arrived"
    /\ \A o \in DOMAIN reqs \ {r} : ~BlocksLoop(reqs[o])
    /\ LET q == reqs[r]
       IN  reqs' = [reqs EXCEPT ![r] =
                      IF q.endpoint = "health" THEN health(q)
                      ELSE [Started(q.endpoint, q.key, q.has_model, q.model,
                                    q.stream_field, q.payload, registry, prefs)
                               EXCEPT !.behind = q.behind]]
    /\ UNCHANGED <<registry, nextId, prefs, lastOp, translated>>

InitAdmin ==
    /\ registry = {}
    /\ nextId = 1
    /\ prefs = [k \in Keys |-> [backend_id |-> 0, model_name |-> None]]
    /\ lastOp = OpResult("none", 0, "ok")
    /\ reqs = IdleReqs
    /\ translated = NoTranslation

NextAdmin ==
    \/ \E sn \in ShortNames, dm \in DefaultModels, def \in BOOLEAN :
          create_backend(sn, dm, def)
    \/ \E id \in BackendIds, sn \in ShortNames \cup {None},
          dm \in DefaultModels, act \in OptBool, def \in OptBool :
          update_backend(id, sn, dm, act, def)
    \/ \E id \in BackendIds : delete_backend(id)
    \/ \E k \in Keys, bid \in 0..MaxBackends : set_user_backend(k, bid)
    \/ GetDefault

SpecAdmin == InitAdmin /\ [][NextAdmin]_vars

----------------------------------------------------------------------------
(* The gateway serving requests against a registry that administration has *)
(* left behind.                                                            *)

\* registries the operations above can leave: ids and short names unique, at
\* most one default
RowData == [short_name : ShortNames, default_model : DefaultModels,
            is_active : BOOLEAN, is_default : BOOLEAN]

ValidRegistries ==
    UNION { { { Row(i, f[i].short_name, f[i].default_model, f[i].is_active,
                    f[i].is_default) : i \in S } :
              f \in { g \in [S -> RowData] :
                        /\ \A i, j \in S : i # j => g[i].short_name # g[j].short_name
                        /\ Cardinality({ i \in S : g[i].is_default }) <= 1 } } :
            S \in SUBSET BackendIds }

\* model strings of requests
ResolveModels ==
    { <<>>, <<"m">>, <<"a", "/">>, <<"a", "/", "m">>, <<"b", "/", "m">>,
      <<"c", "/", "m">>, <<"a", "/", "b", "/", "m">> }

InitResolve ==
    /\ registry \in ValidRegistries
    /\ nextId = MaxBackends + 1
    /\ prefs \in [Keys -> [backend_id : 0..MaxBackends, model_name : ModelSettings]]
    /\ lastOp = OpResult("none", 0, "ok")
    /\ reqs = IdleReqs
    /\ translated = NoTranslation

NextResolve ==
    \E r \in Reqs, ep \in { "messages", "chat" }, k \in Keys,
       stream \in { "True", "False" } :
        \/ \E model \in ResolveModels : Receive(r, ep, k, TRUE, model, stream, "p1")
        \/ Receive(r, ep, k, FALSE, None, stream, "p1")

SpecResolve == InitResolve /\ [][NextResolve]_vars

\* a registry with a default backend that has a default model and a second
\* backend that has none; and the empty registry
GatewayRegistries ==
    { {},
      { Row(1, <<"a">>, <<"h">>, TRUE, TRUE), Row(2, <<"b">>, None, TRUE, FALSE) } }

\* model fields of requests; <<>> is "model": ""
GatewayModels == { <<>>, <<"m">>, <<"h">>, <<"b", "/", "m">>, <<"c", "/", "m">> }

\* response bodies and exception messages, by the looked-for substrings in them
Texts ==
    { {}, { "not found" }, { "model", "not found" }, { "model", "does not exist" },
      { "model", "invalid" }, { "model", "no access" } }

Outcomes ==
    { Outcome("timeout", 0, {}), Outcome("connect", 0, {}) }
      \cup { Outcome("status", c, t) : c \in { 400, 401, 429 }, t \in Texts }
      \cup { Outcome("other", 0, t) : t \in Texts }

Init ==
    /\ registry \in GatewayRegistries
    /\ nextId = MaxBackends + 1
    /\ prefs = [k \in Keys |-> [backend_id |-> 0, model_name |-> None]]
    /\ lastOp = OpResult("none", 0, "ok")
    /\ reqs = IdleReqs
    /\ translated = NoTranslation

Next ==
    \E r \in Reqs :
        \/ \E ep \in { "messages", "chat" }, k \in Keys, stream \in OptBool,
              payload \in Payloads :
              \/ \E model \in GatewayModels :
                    Receive(r, ep, k, TRUE, model, stream, payload)
              \/ Receive(r, ep, k, FALSE, None, stream, payload)
        \/ BackendResponds(r)
        \/ \E out \in Outcomes : BackendFails(r, out)
        \/ RetryFails(r)
        \/ StreamLine(r)
        \/ StreamEnds(r)
        \/ \E out \in Outcomes : StreamFails(r, out)
        \/ StreamRetryFails(r)
        \/ Disconnect(r)

Spec == Init /\ [][Next]_vars

----------------------------------------------------------------------------
(* The gateway with several requests in flight.                            *)

ConcReqs == 1..MaxConc

\* backend a has a base_url and api_key of its own and is the default; backend
\* b carries the base_url and api_key of the global configuration
ConcRegistry ==
    { Row(1, <<"a">>, <<"h">>, TRUE, TRUE),
      WithGlobalPair(Row(2, <<"b">>, None, TRUE, FALSE)) }

ConcModels == { <<"m">>, <<"a", "/", "m">>, <<"b", "/", "m">> }

ConcOutcomes ==
    { Outcome("timeout", 0, {}), Outcome("status", 404, { "model", "not found" }) }

InitConc ==
    /\ registry = ConcRegistry
    /\ nextId = MaxBackends + 1
    /\ prefs = [k \in Keys |-> [backend_id |-> 0, model_name |-> None]]
    /\ lastOp = OpResult("none", 0, "ok")
    /\ reqs = [r \in ConcReqs |-> IdleReq]
    /\ translated = NoTranslation

\* what the backend of request r does to it: a response, a failure, lines
BackendStep(r) ==
    \/ BackendResponds(r)
    \/ \E out \in ConcOutcomes : BackendFails(r, out)
    \/ RetryFails(r)
    \/ StreamLine(r)
    \/ StreamEnds(r)
    \/ \E out \in ConcOutcomes : StreamFails(r, out)
    \/ StreamRetryFails(r)

NextConc ==
    \E r \in ConcReqs :
        \/ \E k \in Keys, model \in ConcModels, stream \in { "True", "False" } :
              Arrive(r, "messages", k, TRUE, model, stream, "p1")
        \/ \E k \in Keys : Arrive(r, "health", k, FALSE, None, "None", "none")
        \/ Serve(r)
        \/ BackendStep(r)
        \/ Disconnect(r)

SpecConc == InitConc /\ [][NextConc]_vars

\* the backend whose calls may never return
HungBackend == MinId(ConcRegistry).id

\* the loop runs every scheduled handler; every backend but HungBackend
\* eventually answers, fails or ends its stream (the client's timeout bounds
\* every call, config.timeout)
SpecConcFair ==
    /\ SpecConc
    /\ \A r \in ConcReqs : WF_vars(Serve(r))
    /\ \A r \in ConcReqs :
          WF_vars(reqs[r].backend.id # HungBackend /\ BackendStep(r))

\* administration while requests are in flight: the default_model of the
\* default backend is emptied, a caller's preference is set to the other backend
AdminStep ==
    \/ update_backend(MinId(ConcRegistry).id, None, <<>>, "None", "None")
    \/ \E k \in Keys, b \in ConcRegistry \ { MinId(ConcRegistry) } :
          set_user_backend(k, b.id)

NextConcAdmin == NextConc \/ AdminStep

SpecConcAdmin == InitConc /\ [][NextConcAdmin]_vars

----------------------------------------------------------------------------
(* The translator applied to requests and responses.                       *)

\* content blocks of /v1/messages requests
ClaudeBlocks ==
    { TextBlock(<<"x">>), TextBlock(<<"y">>), TextBlock(<<" ">>), TextBlock(None),
      ToolUseBlock,
      ToolResultBlock(<<"t">>, StrContent(<<"x">>)),
      ToolResultBlock(<<"u">>, NoContent),
      ToolResultBlock(<<"t">>, ListContent(<< TextBlock(<<"x">>), TextBlock(<<"y">>) >>)),
      ToolResultBlock(<<"t">>, OtherContent(<<"7">>)) }

BlockLists == UNION { [1..n -> ClaudeBlocks] : n \in 0..MaxBlocks }

ClaudeContents ==
    { NoContent, StrContent(<<>>), StrContent(<<"x">>) }
      \cup { ListContent(bs) : bs \in BlockLists }

ClaudeMessages == [role : { "user", "assistant" }, content : ClaudeContents]

ClaudeSystems ==
    { NoContent, StrContent(<<"s">>),
      ListContent(<< TextBlock(<<"s">>), TextBlock(<<"x">>) >>) }

ClaudeRequests ==
    [system : ClaudeSystems,
     messages : UNION { [1..n -> ClaudeMessages] : n \in 0..MaxTurns }]

\* tool calls of backend responses
ToolCall(type, function, arguments) ==
    [type |-> type, function |-> function, arguments |-> arguments]

ToolCalls ==
    { ToolCall("other", "dict", "object"), ToolCall("function", "absent", "absent"),
      ToolCall("function", "null", "absent") }
      \cup { ToolCall("function", "dict", a) :
               a \in { "absent", "null", "object", "empty_object", "array",
                       "invalid", "empty_string" } }

NoCalls == [kind |-> "absent", calls |-> <<>>]

ToolCallLists ==
    { NoCalls, [kind |-> "null", calls |-> <<>>], [kind |-> "malformed", calls |-> <<>>],
      [kind |-> "list", calls |-> <<>>],
      [kind |-> "list", calls |-> << ToolCall("function", "dict", "invalid"),
                                    ToolCall("function", "dict", "object") >>] }
      \cup { [kind |-> "list", calls |-> << tc >>] : tc \in ToolCalls }

FinishReasons ==
    { "absent", "null", "stop", "length", "content_filter", "tool_calls",
      "function_call", "eos" }

Usage(kind, p, c) == [kind |-> kind, prompt_tokens |-> p, completion_tokens |-> c]

Usages ==
    { Usage("absent", -1, -1), Usage("null", -1, -1) }
      \cup { Usage("dict", p, c) : p \in { -1, 0, 3 }, c \in { -1, 5 } }

ResponseContents ==
    { NoContent, [kind |-> "null", str |-> <<>>, blocks |-> <<>>],
      StrContent(<<>>), StrContent(<<"x">>) }

OpenAIResponse(ch, msg, c, rc, tcs, fr, u, om) ==
    [choices |-> ch, message |-> msg, content |-> c, reasoning_content |-> rc,
     tool_calls |-> tcs, finish_reason |-> fr, usage |-> u, original_model |-> om]

OpenAIResponses ==
    { OpenAIResponse(ch, "absent", NoContent, None, NoCalls, "absent", u, None) :
        ch \in { "absent", "null", "empty", "one_null" }, u \in Usages }
      \cup { OpenAIResponse("one", msg, NoContent, None, NoCalls, fr, u, None) :
               msg \in { "absent", "null" }, fr \in FinishReasons, u \in Usages }
      \cup { OpenAIResponse("one", "dict", c, rc, tcs, fr, u, om) :
               c \in ResponseContents, rc \in { None, <<"r">> }, tcs \in ToolCallLists,
               fr \in FinishReasons, u \in Usages, om \in { None, <<"m">> } }

NoOutput == [raised |-> "pending"]

InitTranslate ==
    /\ registry = {}
    /\ nextId = 1
    /\ prefs = [k \in Keys |-> [backend_id |-> 0, model_name |-> None]]
    /\ lastOp = OpResult("none", 0, "ok")
    /\ reqs = IdleReqs
    /\ translated \in
          { [op |-> "request", done |-> FALSE, input |-> q, output |-> NoOutput] :
              q \in ClaudeRequests }
          \cup { [op |-> "response", done |-> FALSE, input |-> p, output |-> NoOutput] :
                   p \in OpenAIResponses }

NextTranslate == TranslateRequest \/ TranslateResponse

SpecTranslate == InitTranslate /\ [][NextTranslate]_vars

----------------------------------------------------------------------------
(* Properties.                                                             *)

\* the first backend call of q failed and its except block has run
FirstCallFailed(q) == q.out1 # NoOutcome

\* the exception the handler of q caught for its first call
Caught(q) ==
    IF q.stream THEN RaisedBy_create_streaming_completion(q.out1)
    ELSE RaisedBy_create_completion(q.out1)

\* the handler classified the first failure as a model error of a model the
\* caller named
ClassifiedModelError(q) ==
    /\ FirstCallFailed(q)
    /\ q.has_model
    /\ IF q.stream THEN is_model_error_streaming(Caught(q)) ELSE is_model_error(Caught(q))

LastLine(q) == IF q.lines = <<>> THEN "none" ELSE q.lines[Len(q.lines)].from

ErrorLines(q) == Cardinality({ i \in 1..Len(q.lines) : q.lines[i] = ErrorLine })

\* C1 as stated: every failure classified as a model error is retried exactly
\* once with the fallback model, streaming or not, and no request makes more
\* than two backend calls.
C1_Original ==
    \A r \in Reqs :
        LET q == reqs[r]
        IN  /\ Len(q.sent) <= 2
            /\ ClassifiedModelError(q) =>
                  Len(q.sent) = 2 /\ q.sent[2] = q.fallback_model

\* C1 amended: a failure classified as a model error is retried exactly once
\* with the fallback model, except in the streaming path when the failed model
\* already is the fallback model, where no retry is made; a failed retry ends
\* the request; no request makes more than two backend calls.
C1_FallbackOnce ==
    \A r \in Reqs :
        LET q == reqs[r]
            same == q.stream /\ q.sent[1] = q.fallback_model
        IN  /\ Len(q.sent) <= 2
            /\ (ClassifiedModelError(q) /\ ~same) =>
                  Len(q.sent) = 2 /\ q.sent[2] = q.fallback_model
            /\ (ClassifiedModelError(q) /\ same) => Len(q.sent) = 1
            /\ q.fail2 => q.pc = "done" /\ Len(q.sent) = 2

\* a retry was made and failed, and the request ended there
C1_Witness ==
    \E r \in Reqs :
        /\ reqs[r].fail2 /\ reqs[r].pc = "done"
        /\ ClassifiedModelError(reqs[r]) /\ Len(reqs[r].sent) = 2

\* a transport timeout, a refused connection, a quota (429) or an
\* authentication (401) failure whose body does not mention the model
NonModelError(out) ==
    \/ out.kind \in { "timeout", "connect" }
    \/ out.kind = "status" /\ out.code \in { 401, 429 } /\ "model" \notin out.text

\* C2: when the first backend call fails with a non-model error, the request
\* makes exactly one backend call and ends.
C2_NonModelNoRetry ==
    \A r \in Reqs :
        LET q == reqs[r]
        IN  (FirstCallFailed(q) /\ NonModelError(q.out1)) =>
                Len(q.sent) = 1 /\ q.pc = "done"

\* C3 as stated: in the non-streaming path the first failure is retried iff the
\* request named a model and the error text or the response body contains one
\* of "not found", "does not exist", "invalid", "no access".
C3_Original ==
    \A r \in Reqs :
        LET q == reqs[r]
            e == Caught(q)
            words == { "not found", "does not exist", "invalid", "no access" }
        IN  (FirstCallFailed(q) /\ ~q.stream) =>
                (Len(q.sent) = 2 <=>
                    /\ q.has_model /\ Truthy(q.model)
                    /\ (e.str \cup e.body) \cap words # {})

\* C3 amended: in the non-streaming path the first failure is retried iff the
\* request carried a model field and either the error text contains "model"
\* and one of "not found", "does not exist", "invalid", or the response body
\* contains "model" and one of "not found", "does not exist", "no access".
C3_ModelErrorIff ==
    \A r \in Reqs :
        LET q == reqs[r]
            e == Caught(q)
        IN  (FirstCallFailed(q) /\ ~q.stream) =>
                (Len(q.sent) = 2 <=>
                    /\ q.has_model
                    /\ \/ /\ "model" \in e.str
                          /\ e.str \cap { "not found", "does not exist", "invalid" } # {}
                       \/ /\ "model" \in e.body
                          /\ e.body \cap { "not found", "does not exist", "no access" } # {})

\* a non-streaming request retried because the body said the model is not
\* accessible, and one not retried although its body said "invalid"
C3_Witness ==
    \E r \in Reqs :
        /\ ~reqs[r].stream /\ reqs[r].has_model
        /\ reqs[r].out1 = Outcome("status", 400, { "model", "no access" })
        /\ Len(reqs[r].sent) = 2

\* the model string the handler of q resolved: the request's, else the key's
Requested(q) == IF q.has_model THEN q.model ELSE prefs[q.key].model_name

\* s is S, a "/", and a non-empty rest
Addresses(s, S) ==
    /\ s # None
    /\ Len(s) >= Len(S) + 2
    /\ SubSeq(s, 1, Len(S)) = S
    /\ s[Len(S) + 1] = "/"

Rest(s, S) == SubSeq(s, Len(S) + 2, Len(s))

\* C4 as stated: whenever an active backend with short name S exists, the model
\* string "S/M" with M non-empty resolves to backend S and model M.
C4_Original ==
    \A r \in Reqs : \A b \in registry :
        LET q == reqs[r]
        IN  (q.pc # "idle" /\ b.is_active /\ Addresses(Requested(q), b.short_name)) =>
                /\ q.backend = b
                /\ q.sent = << Rest(Requested(q), b.short_name) >>

\* C4 amended: whenever an active backend exists whose short name S contains no
\* "/", the model string "S/M" with M non-empty resolves to backend S and model
\* M, whatever the caller's preference and the registry default.
C4_ExplicitBackendWins ==
    \A r \in Reqs : \A b \in registry :
        LET q == reqs[r]
        IN  (/\ q.pc # "idle" /\ b.is_active /\ ~HasSlash(b.short_name)
             /\ Addresses(Requested(q), b.short_name)) =>
                /\ q.backend = b
                /\ q.sent = << Rest(Requested(q), b.short_name) >>

\* "b/m" resolved to backend b while the caller prefers another active backend
\* and b is not the default
C4_Witness ==
    \E r \in Reqs : \E p \in registry :
        LET q == reqs[r]
        IN  /\ q.has_model /\ q.model = <<"b", "/", "m">>
            /\ q.backend.short_name = <<"b">> /\ q.sent = << <<"m">> >>
            /\ p.id = prefs[q.key].backend_id /\ p.is_active /\ p.is_default
            /\ p.id # q.backend.id

\* the backend get_default_backend is documented to return: the active one
\* flagged default, else the active one with the lowest id
IsRegistryDefault(b, reg) ==
    /\ b \in reg /\ b.is_active
    /\ \/ b.is_default
       \/ /\ ~\E d \in reg : d.is_active /\ d.is_default
          /\ \A a \in reg : a.is_active => b.id <= a.id

C6_UnresolvableIsClientError ==
    \A r \in Reqs :
        LET q == reqs[r]
            s == Requested(q)
        IN  (/\ q.pc # "idle" /\ Truthy(s) /\ HasSlash(s)
             /\ ~\E b \in registry : b.is_active /\ b.short_name = SplitHead(s)) =>
                q.pc = "done" /\ q.sent = <<>> /\ q.status \in 400..499

\* C7: in the streaming path a fallback stream is opened only after the first
\* stream failed with a failure classified as retryable, for a request that
\* named a model, and with a fallback model other than the model that failed;
\* when the two are equal no second stream is opened and the failure is
\* reported as an error line.
C7_StreamFallbackOnlyIfDiffers ==
    \A r \in Reqs :
        LET q == reqs[r]
        IN  q.stream =>
              /\ (q.pc = "stream2" \/ Len(q.sent) >= 2) =>
                    /\ FirstCallFailed(q)
                    /\ is_model_error_streaming(Caught(q))
                    /\ q.has_model
                    /\ q.sent[1] # q.fallback_model
                    /\ q.sent = << q.sent[1], q.fallback_model >>
              /\ (FirstCallFailed(q) /\ q.sent[1] = q.fallback_model) =>
                    /\ Len(q.sent) = 1
                    /\ q.pc = "done"
                    /\ LastLine(q) = "error"

\* a stream of the fallback model itself failed with a retryable failure for a
\* request that named that model: no second stream, an error line
C7_Witness ==
    \E r \in Reqs :
        LET q == reqs[r]
        IN  /\ q.stream /\ q.has_model /\ FirstCallFailed(q)
            /\ is_model_error_streaming(Caught(q))
            /\ q.sent = << q.fallback_model >>
            /\ q.pc = "done" /\ LastLine(q) = "error"

\* the handler of q is left with a backend failure: a first failure that was
\* not retried, or a failed retry
FailureLeft(q) == (FirstCallFailed(q) /\ Len(q.sent) = 1) \/ q.fail2

C9_AtMostOneDefault ==
    Cardinality({ b \in registry : b.is_default }) <= 1

\* a backend created as the default while an older backend exists
C9_Witness ==
    /\ lastOp = OpResult("create", 0, "ok")
    /\ \E b, c \in registry : b.id < c.id /\ c.is_default /\ ~b.is_default

\* C10: a delete_backend of a backend that a key's backend_id references raises
\* an error and changes neither the registry nor any preference; and a backend
\* leaves the registry only in a step in which no preference references it.
C10_DeleteReferencedRejected ==
    [][ /\ (lastOp'.op = "delete" /\ RefCount(prefs, lastOp'.id) > 0) =>
              /\ lastOp'.result = "ValueError"
              /\ registry' = registry
              /\ prefs' = prefs
        /\ \A b \in registry :
              (~\E c \in registry' : c.id = b.id) => RefCount(prefs, b.id) = 0
      ]_vars

\* a delete of a referenced backend was refused and the backend is still there
C10_Witness ==
    /\ lastOp.op = "delete" /\ lastOp.result = "ValueError"
    /\ RefCount(prefs, lastOp.id) > 0
    /\ \E b \in registry : b.id = lastOp.id

\* C11: get_default_backend returns the active backend whose default flag is
\* set when there is one; otherwise the active backend with the lowest id; and
\* nothing only when no backend is active.
C11_GetDefault ==
    lastOp.op = "get_default" =>
        LET def == { b \in registry : b.is_active /\ b.is_default }
            act == { b \in registry : b.is_active }
        IN  /\ def # {} => \E b \in def : b.id = lastOp.id
            /\ (def = {} /\ act # {}) =>
                   /\ \E b \in act : b.id = lastOp.id
                   /\ \A b \in act : lastOp.id <= b.id
            /\ lastOp.id = 0 <=> act = {}

\* the backend flagged default is inactive and the call returned the active
\* backend, which has the higher id
C11_Witness ==
    /\ lastOp.op = "get_default"
    /\ \E d, a \in registry :
          /\ d.is_default /\ ~d.is_active /\ a.is_active
          /\ d.id < a.id /\ lastOp.id = a.id

\* the request of q completed successfully: a non-streaming request answered
\* 200 with the completion, a streaming request whose stream (the first or the
\* fallback) ran to its end with no error line
Succeeded(q) ==
    /\ q.pc = "done"
    /\ IF q.stream THEN ErrorLines(q) = 0 /\ q.sent # <<>>
       ELSE q.status = 200 /\ q.body = "completion"

\* C12: the usage-accounting sink (track_usage) is invoked exactly once for
\* every request that completes successfully, streaming or not, with or without
\* a fallback retry, and never more than once for any request.
C12_UsageExactlyOnce ==
    \A r \in Reqs :
        LET q == reqs[r]
        IN  /\ q.tracked <= 1
            /\ Succeeded(q) => q.tracked = 1

C15_DisconnectTearsDown ==
    [][ \A r \in DOMAIN reqs :
          ~reqs'[r].connected =>
              /\ reqs'[r].pc = "closed"
              /\ reqs'[r].lines = reqs[r].lines
              /\ reqs'[r].sent = reqs[r].sent
      ]_vars

\* the caller disconnected after a line of the first stream, from a request
\* for which a fallback stream could have been opened
C15_Witness ==
    \E r \in Reqs :
        LET q == reqs[r]
        IN  /\ ~q.connected /\ q.pc = "closed"
            /\ q.lines = << Line("1", 1) >> /\ q.has_model
            /\ q.sent # << q.fallback_model >> /\ Len(q.sent) = 1

\* requests whose resolution returned a client
Resolved == { r \in DOMAIN reqs : reqs[r].client # "none" }

\* the (base_url, api_key) pairs the resolved requests referenced
PairsReferenced == { reqs[r].backend.pair : r \in Resolved }

\* clients constructed while resolving requests
ClientsConstructed == Cardinality({ r \in Resolved : reqs[r].client = "new" })

C14_NoHeadOfLineBlocking ==
    \A r \in ConcReqs :
        (reqs[r].pc = "arrived") ~>
            (reqs[r].pc \in { "done", "closed" } \/ reqs[r].backend.id = HungBackend)

\* a completion request that arrived while another request was waiting on the
\* hung backend has completed on another backend, and the other still waits
C14_Witness ==
    \E r1, r2 \in ConcReqs :
        /\ reqs[r1].pc = "await1" /\ reqs[r1].backend.id = HungBackend
        /\ reqs[r2].behind /\ reqs[r2].endpoint = "messages"
        /\ reqs[r2].backend.id \notin { 0, HungBackend } /\ reqs[r2].pc = "done"

\* a request translation, or a response translation, has run
RequestDone == translated.op = "request" /\ translated.done
ResponseDone == translated.op = "response" /\ translated.done

\* content that is text only: a string, or a list of text blocks
IsPureText(c) ==
    c.kind = "list" => \A i \in 1..Len(c.blocks) : c.blocks[i].type = "text"

\* the text of pure-text content: the string, or the texts of its blocks, one
\* per line
InboundText(c) ==
    IF c.kind = "list"
    THEN Join([i \in 1..Len(c.blocks) |->
                 IF c.blocks[i].text = None THEN <<>> ELSE c.blocks[i].text])
    ELSE c.str

PureTextRequest(q) ==
    /\ IsPureText(q.system)
    /\ \A i \in 1..Len(q.messages) : IsPureText(q.messages[i].content)

\* the request half of C16: one outbound message per inbound turn, in order,
\* with the same role and text, after one system message when a system field
\* is present
RequestRoundTrip ==
    (RequestDone /\ PureTextRequest(translated.input)) =>
        LET q == translated.input
            out == translated.output.messages
            off == IF q.system.kind = "absent" THEN 0 ELSE 1
        IN  /\ Len(out) = off + Len(q.messages)
            /\ off = 1 => /\ out[1].role = "system"
                          /\ out[1].content = InboundText(q.system)
            /\ \A i \in 1..Len(q.messages) :
                  /\ out[off + i].role = q.messages[i].role
                  /\ out[off + i].content = InboundText(q.messages[i].content)
                  /\ out[off + i].tool_call_id = None

\* a well-formed text-only backend response: one choice whose message has a
\* string content and no tool call, usage absent or an object
TextOnlyResponse(p) ==
    /\ p.choices = "one" /\ p.message = "dict" /\ p.content.kind = "str"
    /\ p.tool_calls.kind \in { "absent", "null" }
    /\ p.usage.kind \in { "absent", "dict" }

C17_FinishReasonMapping ==
    (ResponseDone /\ translated.output.raised = "none") =>
        LET fr == IF translated.input.choices = "one"
                  THEN translated.input.finish_reason ELSE "absent"
            sr == translated.output.stop_reason
        IN  /\ fr = "stop" => sr = "end_turn"
            /\ fr = "length" => sr = "max_tokens"
            /\ fr = "content_filter" => sr = "content_filtered"
            /\ fr = "tool_calls" => sr = "tool_use"
            /\ fr = "function_call" => sr = "tool_use"
            /\ fr \notin { "stop", "length", "content_filter", "tool_calls",
                           "function_call" } => sr = "end_turn"

\* a response with finish_reason function_call has been translated to
\* stop_reason tool_use
C17_Witness ==
    /\ ResponseDone /\ translated.output.raised = "none"
    /\ translated.input.choices = "one"
    /\ translated.input.finish_reason = "function_call"
    /\ translated.output.stop_reason = "tool_use"

\* C18: usage is never fabricated: a response without usage yields no usage
\* field, and every count of a translated usage field is the count the
\* backend reported.
C18_UsageNeverFabricated ==
    (ResponseDone /\ translated.output.raised = "none") =>
        LET u == translated.input.usage
            out == translated.output.usage
        IN  /\ u.kind = "absent" => ~out.present
            /\ out.present =>
                  /\ u.kind = "dict"
                  /\ u.prompt_tokens >= 0 /\ out.input_tokens = u.prompt_tokens
                  /\ u.completion_tokens >= 0
                  /\ out.output_tokens = u.completion_tokens

\* a tool call of type function whose function object carries an argument
\* string that is no JSON
HasMalformedArguments(p) ==
    /\ p.choices = "one" /\ p.message = "dict" /\ p.tool_calls.kind = "list"
    /\ \E i \in 1..Len(p.tool_calls.calls) :
          LET tc == p.tool_calls.calls[i]
          IN  /\ tc.type = "function" /\ tc.function = "dict"
              /\ tc.arguments \in { "invalid", "empty_string" }

\* C19: the response translator never fails: whatever of choices, message,
\* content, tool_calls, a tool call's arguments and usage is absent, null or
\* malformed, it returns a response; and a tool call whose argument string is
\* not valid JSON becomes a tool_use part with an empty input object.
C19_TranslatorNeverFails ==
    ResponseDone =>
        /\ translated.output.raised = "none"
        /\ HasMalformedArguments(translated.input) =>
              \E i \in 1..Len(translated.output.content) :
                  translated.output.content[i] = ToolUsePart("empty")

\* the content blocks of a turn that are tool results, and those that are text
ToolResultsOf(m) == SelectSeq(m.content.blocks, LAMBDA b : b.type = "tool_result")
TextBlocksOf(m) == SelectSeq(m.content.blocks, LAMBDA b : b.type = "text")

\* the sibling text parts of a turn, one per line
SiblingText(m) ==
    Join([i \in 1..Len(TextBlocksOf(m)) |->
            IF TextBlocksOf(m)[i].text = None THEN <<>> ELSE TextBlocksOf(m)[i].text])

\* the flattened content of a tool result: a string as it is, a list of text
\* parts one per line, any other value as its str()
Flattened(c) ==
    IF c.kind = "list"
    THEN Join([i \in 1..Len(c.blocks) |->
                 IF c.blocks[i].text = None THEN <<>> ELSE c.blocks[i].text])
    ELSE c.str

HasToolResults(m) == m.content.kind = "list" /\ ToolResultsOf(m) # <<>>

\* outbound messages a turn is expected to produce when free(m) tells whether
\* it has sibling free text: one, or for a turn with tool results one per tool
\* result and one more for the free text
RECURSIVE SumTo(_, _)
SumTo(ns, n) == IF n <= 0 THEN 0 ELSE ns[n] + SumTo(ns, n - 1)

ExpectedBefore(ms, i, free(_)) ==
    SumTo([j \in 1..Len(ms) |->
             IF HasToolResults(ms[j])
             THEN Len(ToolResultsOf(ms[j])) + (IF free(ms[j]) THEN 1 ELSE 0)
             ELSE 1],
          i - 1)

\* the expansion of every turn with tool results of the translated request,
\* given what counts as sibling free text
ToolResultExpansion(free(_)) ==
    RequestDone =>
        LET q == translated.input
            out == translated.output.messages
            off == IF q.system.kind = "absent" THEN 0 ELSE 1
        IN  /\ Len(out) = off + ExpectedBefore(q.messages, Len(q.messages) + 1, free)
            /\ \A i \in 1..Len(q.messages) :
                  HasToolResults(q.messages[i]) =>
                      LET m == q.messages[i]
                          k == Len(ToolResultsOf(m))
                          at == off + ExpectedBefore(q.messages, i, free)
                      IN  /\ \A j \in 1..k :
                                out[at + j] =
                                    OpenAIMessage("tool",
                                        Flattened(ToolResultsOf(m)[j].result),
                                        ToolResultsOf(m)[j].tool_use_id)
                          /\ free(m) =>
                                out[at + k + 1] =
                                    OpenAIMessage("user", SiblingText(m), None)

StreamLines(a, b) ==
    [i \in 1..(a + b) |-> IF i <= a THEN Line("1", i) ELSE Line("2", i - a)]

\* what the caller got before the error line, if there is one
BeforeError(q) == SelectSeq(q.lines, LAMBDA l : l # ErrorLine)

IsPrefixOf(s, t) == Len(s) <= Len(t) /\ SubSeq(t, 1, Len(s)) = s

\* C22: in the streaming path the lines delivered to the caller are the lines
\* the first stream delivered, in the order received, then, only if a fallback
\* stream was opened, the lines the fallback stream delivered from its first
\* on, in the order received, then at most one error line; every line a stream
\* delivered is delivered to the caller; and a delivered line is never
\* withdrawn: every step extends what the caller has.
C22_StreamedLinesInOrder ==
    [][ \A r \in DOMAIN reqs :
          LET q == reqs'[r]
              a == Yielded(q, "1")
              b == Yielded(q, "2")
          IN  /\ BeforeError(q) = StreamLines(a, b)
              /\ BeforeError(q) = q.recv
              /\ b > 0 => Len(q.sent) = 2
              /\ ErrorLines(q) <= 1
              /\ ErrorLines(q) = 1 => LastLine(q) = "error"
              /\ q.lines # <<>> => q.stream
              /\ IsPrefixOf(reqs[r].lines, q.lines)
      ]_vars

\* the first stream failed after one line, the fallback stream ran to its end:
\* the caller has the line of the first completion and the whole second one
C22_Witness ==
    \E r \in Reqs :
        LET q == reqs[r]
        IN  /\ q.pc = "done" /\ FirstCallFailed(q) /\ ~q.fail2
            /\ q.lines = << Line("1", 1), Line("2", 1), Line("2", 2) >>

\* C23: on a fallback retry the request given to the backend is the request
\* of the first attempt with its model replaced by the resolved backend's
\* default_model, or by the system-wide default model when that backend has
\* none; it goes to the same backend through the same client, and its
\* messages, tools, token ceiling, sampling parameters and stream flag are
\* those of the first attempt.
C23_RetryDiffersOnlyInModel ==
    \A r \in DOMAIN reqs :
        LET q == reqs[r]
        IN  Len(q.calls) >= 2 =>
                /\ Len(q.calls) = 2
                /\ q.calls[2].request.model =
                      (IF q.backend.default_model \notin { None, <<>> }
                       THEN q.backend.default_model ELSE openai_model)
                /\ q.calls[2].request.body = q.calls[1].request.body
                /\ q.calls[2].request.body = << q.endpoint, q.payload >>
                /\ q.calls[2].request.stream = q.calls[1].request.stream
                /\ q.calls[2].to = q.calls[1].to
                /\ q.calls[2].pair = q.calls[1].pair
                /\ q.calls[2].client = q.calls[1].client

\* a non-streaming request for "b/m" was retried on backend b, which has no
\* default model, with the system-wide default model
C23_Witness ==
    \E r \in Reqs :
        LET q == reqs[r]
        IN  /\ ~q.stream /\ q.model = <<"b", "/", "m">> /\ q.payload = "p2"
            /\ q.backend.default_model = None
            /\ Len(q.calls) = 2
            /\ q.calls[1].request.model = <<"m">>
            /\ q.calls[2].request.model = openai_model

\* the resolver rejected the request of q: no backend, no backend call
Rejected(q) == q.pc = "done" /\ q.backend = NoRow /\ q.calls = <<>>

\* C24: the statically configured fallback backend is returned only when the
\* registry has no entries at all; whenever the registry holds at least one
\* backend, active or not, the resolver returns a backend of the registry or
\* rejects the request.
C24_StaticOnlyIfEmpty ==
    \A r \in Reqs :
        LET q == reqs[r]
        IN  q.pc # "idle" =>
                /\ q.backend = StaticBackend => registry = {}
                /\ registry # {} => q.backend \in registry \/ Rejected(q)

\* the model string is absent, empty, or has nothing after its first "/"
NamesNoModel(s) == s = None \/ s = <<>> \/ (HasSlash(s) /\ FirstSlash(s) = Len(s))

\* C25: the resolver never returns an empty model name: the model of the
\* first backend call is a non-empty string, and when the model string is
\* absent or has an empty part after the "/" it is the resolved backend's
\* default_model, or the system-wide default model when that backend has no
\* default_model, on every resolution path, the static fallback included.
C25_ModelNeverEmpty ==
    \A r \in Reqs :
        LET q == reqs[r]
        IN  (q.pc # "idle" /\ ~Rejected(q)) =>
                /\ Len(q.calls) = 1
                /\ q.calls[1].request.model \notin { None, <<>> }
                /\ NamesNoModel(Requested(q)) =>
                      q.calls[1].request.model =
                          (IF q.backend.default_model \notin { None, <<>> }
                           THEN q.backend.default_model ELSE openai_model)

\* "a/" resolved to backend a, which has no default model, and the model
\* given to the backend is the system-wide default
C25_Witness ==
    \E r \in Reqs :
        LET q == reqs[r]
        IN  /\ q.has_model /\ q.model = <<"a", "/">>
            /\ q.backend \in registry /\ q.backend.default_model = None
            /\ q.calls[1].request.model = openai_model

\* C26: concurrent requests do not interfere: the backend and the model of the
\* first backend call of a request are what the resolver gives for the
\* request's model string, its caller's preference and the registry as they
\* are when its handler resolves; the model of its fallback call is the
\* default_model (or the system-wide default) of the backend it resolved, as
\* read then, on the same backend; and no step of another request or of the
\* administration changes the backend or the calls of a request.
C26_NoInterference ==
    [][ \A r \in DOMAIN reqs :
          LET q == reqs[r]
              n == reqs'[r]
              res == resolve_backend_and_model(Requested(q), q.key, registry, prefs)
          IN  /\ (q.pc = "arrived" /\ n.pc # "arrived" /\ q.endpoint # "health") =>
                    IF res.err THEN n.calls = <<>>
                    ELSE /\ n.backend = res.backend
                         /\ Len(n.calls) = 1
                         /\ n.calls[1].to = res.backend.id
                         /\ n.calls[1].request.model = res.model
              /\ q.calls # <<>> =>
                    /\ n.backend = q.backend
                    /\ IsPrefixOf(q.calls, n.calls)
                    /\ Len(n.calls) <= 2
              /\ (Len(q.calls) = 1 /\ Len(n.calls) = 2) =>
                    /\ n.calls[2].to = q.backend.id
                    /\ n.calls[2].request.model =
                          (IF q.backend.default_model \notin { None, <<>> }
                           THEN q.backend.default_model ELSE openai_model)
      ]_vars

\* two requests are in their fallback calls at the same time, on different
\* backends and with different fallback models, and the default model of one
\* of the backends has been rewritten since
C26_Witness ==
    \E r1, r2 \in DOMAIN reqs :
        /\ r1 # r2
        /\ Len(reqs[r1].calls) = 2 /\ Len(reqs[r2].calls) = 2
        /\ reqs[r1].pc \in { "await2", "stream2" }
        /\ reqs[r2].pc \in { "await2", "stream2" }
        /\ reqs[r1].calls[2].to # reqs[r2].calls[2].to
        /\ reqs[r1].calls[2].request.model # reqs[r2].calls[2].request.model
        /\ \E b \in registry :
              b.id = reqs[r1].backend.id /\ b.default_model # reqs[r1].backend.default_model

\* the handler of q has built a /v1/messages response
ResponseBuilt(q) == q.endpoint = "messages" /\ q.response_model # None

C28_NoRetryWithSameModel ==
    \A r \in Reqs :
        LET q == reqs[r]
        IN  /\ Len(q.sent) >= 2 => q.sent[2] # q.sent[1]
            /\ (FirstCallFailed(q) /\ q.sent[1] = q.fallback_model) =>
                  /\ Len(q.sent) = 1
                  /\ q.pc = "done"
                  /\ IF q.stream THEN LastLine(q) = "error"
                     ELSE q.status >= 400 /\ q.body = "error"

\* the model string s names a backend by a prefix
HasPrefix(s) == Truthy(s) /\ HasSlash(s)

\* C29: the resolver never selects an inactive backend of the registry: at
\* resolution time an inactive backend named by the model prefix is rejected;
\* an inactive preferred backend is skipped in favour of the registry default;
\* and an inactive backend carrying the default flag is skipped in favour of
\* the active backend with the lowest id.
C29_NeverInactive ==
    \A r \in Reqs :
        LET q == reqs[r]
            s == Requested(q)
            pref == { b \in registry : b.id = prefs[q.key].backend_id }
            act == { b \in registry : b.is_active }
            flagged == { b \in registry : b.is_default }
        IN  q.pc # "idle" =>
                /\ \A b \in registry : q.backend.id = b.id => b.is_active /\ q.backend = b
                /\ (HasPrefix(s) /\ \E b \in registry :
                        /\ b.short_name = SplitHead(s) /\ ~b.is_active
                        /\ ~\E a \in act : a.short_name = b.short_name) => Rejected(q)
                /\ (~HasPrefix(s) /\ act # {} /\ \E b \in pref : ~b.is_active) =>
                        IsRegistryDefault(q.backend, registry)
                /\ (~HasPrefix(s) /\ act # {} /\ pref \cap act = {}
                        /\ flagged # {} /\ flagged \cap act = {}) =>
                        q.backend \in act /\ \A a \in act : q.backend.id <= a.id

\* the caller prefers an inactive backend that also carries the default flag,
\* and the request went to the other backend, which is active
C29_Witness ==
    \E r \in Reqs : \E p \in registry :
        LET q == reqs[r]
        IN  /\ q.pc # "idle" /\ ~HasPrefix(Requested(q))
            /\ p.id = prefs[q.key].backend_id /\ ~p.is_active /\ p.is_default
            /\ q.backend \in registry /\ q.backend.is_active /\ q.backend.id > p.id

\* C30: an update_backend call that reports failure (it returns False because
\* no backend has the given id, or raises because of a short-name conflict)
\* leaves the registry unchanged, including which backend carries the default
\* flag.
C30_FailedUpdateChangesNothing ==
    [][ (lastOp'.op = "update" /\ lastOp'.result \in { "False", "ValueError" }) =>
            registry' = registry
      ]_vars

====
